---- MODULE Spec2Model ----
(***************************************************************************)
(* Model of radar.py (job-materializer): the polling / deduplication /     *)
(* scoring loop of main(), the state store (load_state, save_state) and    *)
(* the output ledger (append_saved_job).                                   *)
(*                                                                         *)
(* A listing is represented by its identifier (stable_job_id of title and  *)
(* company).  Time is an integer clock whose unit is arbitrary: a poll     *)
(* interval (config.yaml poll_interval_seconds) may be shorter or longer   *)
(* than the time elapsed since the epoch.  The process can be interrupted  *)
(* (KeyboardInterrupt, handled by the except block of main) or killed      *)
(* (no handler runs) between any two steps, and started again.             *)
(***************************************************************************)
EXTENDS Integers, Sequences, FiniteSets, TLC

\* ---------------------------------------------------------------- bounds
\* number of process starts in one behaviour
MaxRuns == 2
\* last value of the clock
MaxTime == 2
\* rows returned by one scrape
MaxBatch == 2

\* identifiers (stable_job_id digests) the sources can deliver
JIDs == {"a", "b"}
None == "none"

\* ------------------------------------------------------ program constants
STATE_FILE == ".radar_state.json"
SaveThreshold == 60
Sources == <<"indeed", "zip_recruiter">>
SourceNames == {Sources[k] : k \in DOMAIN Sources}

VARIABLES
  cfg,          \* command line, config.yaml, resume and API key of the runs
  clock,        \* wall clock (time.time())
  tmax,         \* last value of the clock in this behaviour
  runs,         \* process starts left in this behaviour
  fs,           \* the state file and its temporary file
  ledger,       \* saved.txt: the entries appended by append_saved_job
  pc,           \* position of the process in main()
  state,        \* the dict load_state returned (main line 445), until line 451
  handler,      \* TRUE inside the except KeyboardInterrupt block
  seen, seen_list, last_poll, saved_set, saved_list,
  first_run, found, saved, now,
  si,           \* index of source_cfg in sources
  jobs,         \* result of fetch_jobs_from_source for the current source
  pending_jobs,
  i,            \* index of job in pending_jobs (from 1)
  score, reasoning,
  marked,       \* history: times each identifier entered the pipeline, this run
  polled,       \* history: fetches of each source in the first pass, this run
  fetch_failed, \* an exception was caught inside fetch_jobs_from_source
  everSeen,     \* history: identifiers marked seen in any run
  outcome,      \* history: identifiers whose listing went through the pipeline
  batchDone,    \* history: identifiers of the batches that ended with their save
  death,        \* history: how the process last stopped
  resumed,      \* history: death of the run before the current one
  committed,    \* history: content handed to the last completed save_state
  result        \* the dict score_job_with_ai parses from the reply (line 140)

vars == <<cfg, clock, tmax, runs, fs, ledger, pc, state, handler, seen, seen_list, last_poll,
          saved_set, saved_list, first_run, found, saved, now, si, jobs,
          pending_jobs, i, score, reasoning, marked, polled, fetch_failed,
          everSeen, outcome, batchDone, death, resumed, committed, result>>

memory == <<seen, seen_list, last_poll, saved_set, saved_list, first_run, found,
            saved, now, si, jobs, pending_jobs, i, score, reasoning,
            fetch_failed>>

\* ---------------------------------------------------------------- helpers
Min(x, y) == IF x < y THEN x ELSE y
Max(x, y) == IF x < y THEN y ELSE x

SeqToSet(s) == {s[k] : k \in DOMAIN s}

\* sequences over S of length at most n
SeqsUpTo(S, n) == UNION {[1..k -> S] : k \in 0..n}

NoDup(s) == \A p, q \in DOMAIN s : p # q => s[p] # s[q]

\* dict.get(key, default) on a dict held as a set of <<key, value>> pairs
Get(d, key, default) ==
  IF \E p \in d : p[1] = key
  THEN (CHOOSE p \in d : p[1] = key)[2]
  ELSE default

\* d[key] = value
Put(d, key, value) == {p \in d : p[1] # key} \cup {<<key, value>>}

Keys(d) == {p[1] : p \in d}

\* ------------------------------------------------------------ state store
EmptyState == [keys |-> {"seen", "last_poll", "saved"},
               seen |-> <<>>, last_poll |-> {}, saved |-> <<>>]

Missing == [kind |-> "missing", data |-> EmptyState]
Partial == [kind |-> "partial", data |-> EmptyState]
Json(d) == [kind |-> "json", data |-> d]

\* a file whose JSON document is not a dict and on which the key tests or the
\* item assignments of lines 158-163 raise (a number, true, a list of numbers)
Scalar == [kind |-> "scalar", data |-> EmptyState]

load_state_nofill(file) ==
  IF file.kind = "json" THEN file.data ELSE EmptyState

\* load_state: a missing file, an unparsable one and one on which lines
\* 157-163 raise give the empty state (lines 165-167); a parsed dict gets its
\* missing keys filled in (a falsy document is replaced by {} at line 157)
load_state(file) ==
  IF file.kind = "json"
  THEN [keys |-> {"seen", "last_poll", "saved"},
        seen |-> IF "seen" \in file.data.keys THEN file.data.seen ELSE <<>>,
        last_poll |-> IF "last_poll" \in file.data.keys
                      THEN file.data.last_poll ELSE {},
        saved |-> IF "saved" \in file.data.keys THEN file.data.saved ELSE <<>>]
  ELSE EmptyState

\* Python's s[-n:] for n >= 0: -0 is 0, so s[-0:] is the whole list
SliceLast(s, n) ==
  IF n = 0 THEN s ELSE SubSeq(s, Max(1, Len(s) - n + 1), Len(s))

Truncate_early(s, max_seen) ==
  IF Len(s) >= max_seen THEN SliceLast(s, max_seen - 1) ELSE s

\* save_state lines 170-171
Truncate(s, max_seen) == IF Len(s) > max_seen THEN SliceLast(s, max_seen) ELSE s

SaveContent_seenless(s, lp, sv, max_seen) ==
  Json([keys |-> {"seen", "last_poll", "saved"},
        seen |-> <<>>, last_poll |-> lp, saved |-> sv])

\* the object json.dump writes
SaveContent(s, lp, sv, max_seen) ==
  Json([keys |-> {"seen", "last_poll", "saved"},
        seen |-> Truncate(s, max_seen), last_poll |-> lp, saved |-> sv])

TmpPath_inplace(path) == path

TmpPath(path) == path \o ".tmp"

Paths == {STATE_FILE, STATE_FILE \o ".tmp"}

\* os.replace(src, dst)
Replace(files, src, dst) ==
  [p \in DOMAIN files |->
     IF p = dst THEN files[src] ELSE IF p = src THEN Missing ELSE files[p]]

\* --------------------------------------------------------------- pipeline
\* fetch_jobs_from_source lines 253-254: a row whose identifier is already in
\* the batch is dropped
RECURSIVE FetchJobs(_)
FetchJobs(raw) ==
  IF raw = <<>> THEN <<>>
  ELSE LET front == FetchJobs(SubSeq(raw, 1, Len(raw) - 1))
           last == raw[Len(raw)]
       IN IF last \in SeqToSet(front) THEN front ELSE Append(front, last)

RawBatches == SeqsUpTo(JIDs, MaxBatch)

\* fetch_jobs_from_source lines 206-271: the list built from all the rows, or,
\* when scrape_jobs or the handling of a row raises, the list built from the
\* rows before it (the except block of line 269 falls through to "return jobs")
FetchResults ==
  {[jobs |-> FetchJobs(raw), failed |-> FALSE] : raw \in RawBatches}
    \cup UNION {{[jobs |-> FetchJobs(SubSeq(raw, 1, k)), failed |-> TRUE] :
                   k \in 0..Max(0, Len(raw) - 1)} : raw \in RawBatches}

\* jobs[:n] for n >= 0
Take(s, n) == SubSeq(s, 1, Min(n, Len(s)))

NotSeen(s, seenset) == SelectSeq(s, LAMBDA j : j \notin seenset)

PendingJobs_nofilter(batch, seenset, first, limit) ==
  IF first THEN Take(batch, limit) ELSE batch

PendingJobs_alwayslimit(batch, seenset, first, limit) ==
  NotSeen(Take(batch, limit), seenset)

\* main lines 498-501: the truncation of the first run, then the seen-filter
PendingJobs(batch, seenset, first, limit) ==
  NotSeen(IF first THEN Take(batch, limit) ELSE batch, seenset)

Due_early(first, lp, source, t, interval) ==
  ~(t - Get(lp, source, 0) < interval - 1 /\ ~first)

Due_nofirst(first, lp, source, t, interval) ==
  ~(t - Get(lp, source, 0) < interval)

\* main line 480 negated: the source is polled
Due(first, lp, source, t, interval) ==
  ~(t - Get(lp, source, 0) < interval /\ ~first)

\* main lines 415-426: client is set only with a key, a resume and without --no-ai
ClientActive(c) == ~c.no_ai /\ c.api_key /\ c.resume

ScorerActive(c) == ClientActive(c) /\ c.resume

ScorerResults_nosubstitute ==
  {[score |-> 50, reasoning |-> "Scoring unavailable"],
   [score |-> 50, reasoning |-> "ok"],
   [score |-> 90, reasoning |-> "ok"]}

\* what score_job_with_ai returns: a normalized score with its reasoning, or
\* the substitute of line 147
ScorerResults ==
  {[score |-> 0, reasoning |-> "Scoring unavailable"],
   [score |-> 50, reasoning |-> "ok"],
   [score |-> 90, reasoning |-> "ok"]}

Discard_always(active, sc, min_score) == sc < min_score

Discard_never(active, sc, min_score) == FALSE

\* main lines 516-526: the gate sits inside "if client and resume"
Discard(active, sc, min_score) == active /\ sc < min_score

\* main lines 528-535
Tier(sc) ==
  IF sc >= 80 THEN "magenta"
  ELSE IF sc >= 60 THEN "yellow"
  ELSE IF sc >= 40 THEN "blue"
  ELSE "white"

\* main line 539
ShouldSave(sc, jid, savedset) == sc >= SaveThreshold /\ jid \notin savedset

NoFound == [magenta |-> 0, yellow |-> 0, blue |-> 0, white |-> 0]

NoDeath == [cause |-> "none", inflight |-> None]

NoPolls == [s \in SourceNames |-> 0]

NoResult == [score |-> 0]

\* ---------------------------------------------------------- configurations
Intervals(a, b) == [s \in SourceNames |-> IF s = "indeed" THEN a ELSE b]

Config(ms, il, mn, key, res, noai, iv) ==
  [max_seen |-> ms, initial_limit |-> il, min_score |-> mn, api_key |-> key,
   resume |-> res, no_ai |-> noai, interval |-> iv]

\* values of --max-seen and --initial-limit
MaxSeens == 0..2
InitialLimits == {1, 2}

Configs ==
  {Config(ms, il, 40, TRUE, TRUE, FALSE, Intervals(1, 3)) :
     ms \in MaxSeens, il \in InitialLimits}

\* ------------------------------------------------------------------- Init
\* no process is running; nothing is on disk
InitWith(C, starts, t0, tend) ==
  /\ cfg \in C
  /\ clock = t0
  /\ tmax = tend
  /\ runs = starts
  /\ fs = [p \in Paths |-> Missing]
  /\ ledger = <<>>
  /\ pc = "boot"
  /\ state = EmptyState
  /\ handler = FALSE
  /\ seen = {} /\ seen_list = <<>> /\ last_poll = {} /\ saved_set = {}
  /\ saved_list = <<>> /\ first_run = FALSE /\ found = NoFound /\ saved = 0
  /\ now = 0 /\ si = 1 /\ jobs = <<>> /\ pending_jobs = <<>> /\ i = 1
  /\ score = 0 /\ reasoning = ""
  /\ marked = [j \in JIDs |-> 0]
  /\ polled = NoPolls
  /\ fetch_failed = FALSE
  /\ everSeen = {}
  /\ outcome = {}
  /\ batchDone = {}
  /\ death = NoDeath
  /\ resumed = NoDeath
  /\ committed = Missing
  /\ result = NoResult

Init == InitWith(Configs, MaxRuns, 1, MaxTime)

\* the process is gone: its memory is lost
Halt ==
  /\ pc' = "boot"
  /\ state' = EmptyState
  /\ marked' = [j \in JIDs |-> 0]
  /\ polled' = NoPolls
  /\ fetch_failed' = FALSE
  /\ resumed' = NoDeath
  /\ handler' = FALSE
  /\ seen' = {} /\ seen_list' = <<>> /\ last_poll' = {} /\ saved_set' = {}
  /\ saved_list' = <<>> /\ first_run' = FALSE /\ found' = NoFound /\ saved' = 0
  /\ now' = 0 /\ si' = 1 /\ jobs' = <<>> /\ pending_jobs' = <<>> /\ i' = 1
  /\ score' = 0 /\ reasoning' = ""

\* ---------------------------------------------------------------- actions
\* Locals that the code no longer reads (jobs after line 501; score,
\* reasoning, pending_jobs and i after the batch) are put back to their
\* initial values where the code leaves them behind.

\* main lines 445-454: load the state, derive the sets and first_run
Start ==
  /\ pc = "boot"
  /\ runs > 0
  /\ LET loaded == load_state(fs[STATE_FILE])
     IN /\ seen_list' = loaded.seen
        /\ seen' = SeqToSet(loaded.seen)
        /\ last_poll' = loaded.last_poll
        /\ saved_list' = loaded.saved
        /\ saved_set' = SeqToSet(loaded.saved)
        /\ first_run' = (Len(loaded.seen) = 0)
        /\ state' = loaded
  /\ found' = NoFound
  /\ saved' = 0
  /\ runs' = runs - 1
  /\ pc' = "tick"
  /\ handler' = FALSE
  /\ marked' = [j \in JIDs |-> 0]
  /\ polled' = NoPolls
  /\ resumed' = death
  /\ death' = NoDeath
  /\ UNCHANGED <<cfg, result, tmax, clock, fs, ledger, now, si, jobs, fetch_failed, pending_jobs, i, score,
                 reasoning, everSeen, outcome, batchDone, committed>>

\* main line 474 (after the sleep of line 550 for every tick but the first)
TickStart ==
  /\ pc = "tick"
  /\ \E t \in clock..Min(clock + 1, tmax) : clock' = t
  /\ now' = clock'
  /\ si' = 1
  /\ pc' = "poll"
  /\ state' = EmptyState
  /\ UNCHANGED <<cfg, result, tmax, runs, fs, ledger, handler, seen, seen_list, last_poll,
                 saved_set, saved_list, first_run, found, saved, jobs, fetch_failed,
                 pending_jobs, i, score, reasoning, marked, polled, everSeen, outcome, batchDone,
                 death, resumed, committed>>

\* main lines 476-481: the source is not due
SkipSource ==
  /\ pc = "poll"
  /\ si <= Len(Sources)
  /\ ~Due(first_run, last_poll, Sources[si], now, cfg.interval[Sources[si]])
  /\ si' = si + 1
  /\ UNCHANGED <<cfg, result, tmax, state, clock, runs, fs, ledger, pc, handler, seen, seen_list,
                 last_poll, saved_set, saved_list, first_run, found, saved, now,
                 jobs, fetch_failed, pending_jobs, i, score, reasoning, marked, polled,
                 everSeen, outcome, batchDone, death, resumed, committed>>

\* main lines 483-496: fetch the due source and stamp last_poll with the
\* completion time
FetchSource ==
  /\ pc = "poll"
  /\ si <= Len(Sources)
  /\ Due(first_run, last_poll, Sources[si], now, cfg.interval[Sources[si]])
  /\ \E r \in FetchResults : jobs' = r.jobs /\ fetch_failed' = r.failed
  /\ polled' = IF first_run THEN [polled EXCEPT ![Sources[si]] = @ + 1]
                ELSE polled
  /\ \E t \in clock..Min(clock + 1, tmax) : clock' = t
  /\ last_poll' = Put(last_poll, Sources[si], clock')
  /\ pc' = "fetched"
  /\ UNCHANGED <<cfg, result, tmax, state, runs, fs, ledger, handler, seen, seen_list, saved_set,
                 saved_list, first_run, found, saved, now, si, pending_jobs, i,
                 score, reasoning, marked, everSeen, outcome, batchDone, death,
                 resumed, committed>>

\* main lines 498-507
Filter ==
  /\ pc = "fetched"
  /\ pending_jobs' = PendingJobs(jobs, seen, first_run, cfg.initial_limit)
  /\ jobs' = <<>>
  /\ fetch_failed' = FALSE
  /\ i' = 1
  /\ pc' = IF Len(pending_jobs') = 0 THEN "save" ELSE "job"
  /\ UNCHANGED <<cfg, result, tmax, state, clock, runs, fs, ledger, handler, seen, seen_list,
                 last_poll, saved_set, saved_list, first_run, found, saved, now,
                 si, score, reasoning, marked, polled, everSeen, outcome, batchDone, death, resumed,
                 committed>>

\* main lines 547-550: the pass over the sources is over
EndTick ==
  /\ pc = "poll"
  /\ si > Len(Sources)
  /\ first_run' = FALSE
  /\ pc' = "tick"
  /\ UNCHANGED <<cfg, result, tmax, state, clock, runs, fs, ledger, handler, seen, seen_list,
                 last_poll, saved_set, saved_list, found, saved, now, si, jobs, fetch_failed,
                 pending_jobs, i, score, reasoning, marked, polled, everSeen, outcome, batchDone,
                 death, resumed, committed>>

\* the loop of line 509 moves on: the next job, or save_state of line 545
Continue ==
  /\ i' = i + 1
  /\ outcome' = outcome \cup {pending_jobs[i]}
  /\ pc' = IF i + 1 > Len(pending_jobs) THEN "save" ELSE "job"

MarkSeen_dropped(list, jid) == list

\* main line 511
MarkSeen(list, jid) == Append(list, jid)

\* main lines 509-514
Mark ==
  /\ pc = "job"
  /\ seen' = seen \cup {pending_jobs[i]}
  /\ seen_list' = MarkSeen(seen_list, pending_jobs[i])
  /\ score' = 0
  /\ reasoning' = ""
  /\ marked' = [marked EXCEPT ![pending_jobs[i]] = @ + 1]
  /\ everSeen' = everSeen \cup {pending_jobs[i]}
  /\ pc' = "score"
  /\ UNCHANGED <<cfg, result, tmax, state, clock, runs, fs, ledger, handler, last_poll,
                 saved_set, saved_list, first_run, found, saved, now, si, jobs,
                 fetch_failed, pending_jobs, i, polled, outcome, batchDone,
                 death, resumed, committed>>

\* main lines 516-526
Score ==
  /\ pc = "score"
  /\ \E r \in IF ScorerActive(cfg) THEN ScorerResults
              ELSE {[score |-> score, reasoning |-> reasoning]} :
       /\ score' = r.score
       /\ reasoning' = r.reasoning
       /\ IF Discard(ScorerActive(cfg), r.score, cfg.min_score)
          THEN Continue
          ELSE /\ i' = i
               /\ pc' = "render"
               /\ outcome' = outcome
  /\ UNCHANGED <<cfg, result, tmax, state, clock, runs, fs, ledger, handler, seen,
                 seen_list, last_poll, saved_set, saved_list, first_run, found,
                 saved, now, si, jobs, fetch_failed, pending_jobs, marked,
                 polled, everSeen, batchDone, death, resumed, committed>>

\* main lines 528-537: the tier counter and render_job_card
Render ==
  /\ pc = "render"
  /\ found' = [found EXCEPT ![Tier(score)] = @ + 1]
  /\ pc' = "ledger"
  /\ UNCHANGED <<cfg, result, tmax, state, clock, runs, fs, ledger, handler, seen,
                 seen_list, last_poll, saved_set, saved_list, first_run, saved,
                 now, si, jobs, fetch_failed, pending_jobs, i, score, reasoning,
                 marked, polled, everSeen, outcome, batchDone, death, resumed,
                 committed>>

\* main lines 539-540 and append_saved_job
AppendSaved ==
  /\ pc = "ledger"
  /\ IF ShouldSave(score, pending_jobs[i], saved_set)
     THEN /\ ledger' = Append(ledger, [jid |-> pending_jobs[i], score |-> score])
          /\ pc' = "record"
          /\ UNCHANGED <<i, outcome>>
     ELSE /\ ledger' = ledger
          /\ Continue
  /\ UNCHANGED <<cfg, result, tmax, state, clock, runs, fs, handler, seen, seen_list,
                 last_poll, saved_set, saved_list, first_run, found, saved, now,
                 si, jobs, fetch_failed, pending_jobs, score, reasoning, marked,
                 polled, everSeen, batchDone, death, resumed, committed>>

\* main lines 541-543
Record ==
  /\ pc = "record"
  /\ saved_set' = saved_set \cup {pending_jobs[i]}
  /\ saved_list' = Append(saved_list, pending_jobs[i])
  /\ saved' = saved + 1
  /\ Continue
  /\ UNCHANGED <<cfg, result, tmax, state, clock, runs, fs, ledger, handler, seen,
                 seen_list, last_poll, first_run, found, now, si, jobs,
                 fetch_failed, pending_jobs, score, reasoning, marked, polled,
                 everSeen, batchDone, death, resumed, committed>>

\* save_state lines 170-173: the temporary file is opened for writing
SaveOpen ==
  /\ pc = "save"
  /\ fs' = [fs EXCEPT ![TmpPath(STATE_FILE)] = Partial]
  /\ pc' = "save_write"
  /\ jobs' = <<>> /\ fetch_failed' = FALSE
  /\ pending_jobs' = IF handler THEN <<>> ELSE pending_jobs
  /\ i' = 1 /\ score' = 0 /\ reasoning' = ""
  /\ UNCHANGED <<cfg, result, tmax, state, clock, runs, ledger, handler, seen, seen_list,
                 last_poll, saved_set, saved_list, first_run, found, saved, now,
                 si, marked, polled, everSeen, outcome, batchDone, death,
                 resumed, committed>>

\* save_state line 174: json.dump has written the whole object
SaveWrite ==
  /\ pc = "save_write"
  /\ fs' = [fs EXCEPT ![TmpPath(STATE_FILE)] =
              SaveContent(seen_list, last_poll, saved_list, cfg.max_seen)]
  /\ pc' = "save_replace"
  /\ UNCHANGED <<cfg, result, tmax, state, clock, runs, ledger, handler, memory, marked,
                 polled, everSeen, outcome, batchDone, death, resumed,
                 committed>>

\* save_state line 175, then back in main: the next source (line 475) after
\* the save that ends a batch (line 545), or the end of the process after the
\* save of line 556
SaveReplace ==
  /\ pc = "save_replace"
  /\ fs' = Replace(fs, TmpPath(STATE_FILE), STATE_FILE)
  /\ committed' = SaveContent(seen_list, last_poll, saved_list, cfg.max_seen)
  /\ IF handler
     THEN /\ Halt
          /\ batchDone' = batchDone
     ELSE /\ si' = si + 1
          /\ pc' = "poll"
          /\ pending_jobs' = <<>>
          /\ batchDone' = batchDone \cup SeqToSet(pending_jobs)
          /\ UNCHANGED <<state, handler, seen, seen_list, last_poll, saved_set,
                         saved_list, first_run, found, saved, now, jobs,
                         fetch_failed, i, score, reasoning, marked, polled,
                         resumed>>
  /\ UNCHANGED <<cfg, result, tmax, clock, runs, ledger, everSeen, outcome, death>>

\* the listing whose pipeline pass is under way
Inflight ==
  IF pc \in {"score", "render", "ledger", "record"} THEN pending_jobs[i] ELSE None

\* main lines 552-556: Ctrl+C anywhere in the loop enters the handler, which
\* calls save_state
Interrupt ==
  /\ pc \notin {"boot"}
  /\ ~handler
  /\ handler' = TRUE
  /\ pc' = "save"
  /\ death' = [cause |-> "interrupt", inflight |-> Inflight]
  /\ UNCHANGED <<cfg, result, tmax, state, clock, runs, fs, ledger, memory, marked, polled, everSeen, outcome, batchDone,
                 resumed, committed>>

\* the process is killed: no handler runs
Kill ==
  /\ pc \notin {"boot"}
  /\ Halt
  /\ death' = [cause |-> "kill", inflight |-> Inflight]
  /\ UNCHANGED <<cfg, result, tmax, clock, runs, fs, ledger, everSeen, outcome, batchDone, committed>>

Step ==
  \/ Start
  \/ TickStart
  \/ SkipSource
  \/ FetchSource
  \/ Filter
  \/ EndTick
  \/ Mark
  \/ Score
  \/ Render
  \/ AppendSaved
  \/ Record
  \/ SaveOpen
  \/ SaveWrite
  \/ SaveReplace
  \/ Interrupt

Next == Step \/ Kill

Spec == Init /\ [][Next]_vars

\* ------------------------------------------------- crashes and restarts
\* --indeed-interval 0: indeed is due in every tick; the behaviours end
\* before zip_recruiter's interval has elapsed, so the clock is left out
CrashConfigs ==
  {Config(ms, 2, 40, TRUE, TRUE, FALSE, Intervals(0, 3)) : ms \in MaxSeens}

InitCrash == InitWith(CrashConfigs, MaxRuns, 1, 1)

SpecCrash == InitCrash /\ [][Next]_vars

\* ------------------------------------------ kills and restarts, no Ctrl+C
NextKill ==
  \/ Start
  \/ TickStart
  \/ SkipSource
  \/ FetchSource
  \/ Filter
  \/ EndTick
  \/ Mark
  \/ Score
  \/ Render
  \/ AppendSaved
  \/ Record
  \/ SaveOpen
  \/ SaveWrite
  \/ SaveReplace
  \/ Kill

SpecKill == InitCrash /\ [][NextKill]_vars

\* --------------------------------------------- the gate and the scorer modes
\* values of min_score in config.yaml
MinScores == {0, 40}

\* <<API key present, resume present, --no-ai>>
ScorerModes ==
  {<<TRUE, TRUE, FALSE>>, <<FALSE, TRUE, FALSE>>, <<TRUE, FALSE, FALSE>>,
   <<TRUE, TRUE, TRUE>>}

GateConfigs ==
  {Config(2, 2, mn, m[1], m[2], m[3], Intervals(0, 3)) :
     mn \in MinScores, m \in ScorerModes}

InitGate == InitWith(GateConfigs, MaxRuns, 1, 1)

SpecGate == InitGate /\ [][Next]_vars

\* ------------------------------------- interrupts and restarts, never killed
\* --indeed-interval 0: indeed is due in every tick
LedgerConfigs == {Config(1, 2, 40, TRUE, TRUE, FALSE, Intervals(0, 3))}

InitLedger == InitWith(LedgerConfigs, MaxRuns + 1, 1, MaxTime)

SpecLedger == InitLedger /\ [][Step]_vars

\* ------------------------------------------ the state store as a function
\* longest seen list handed to save_state
MaxLen == 3

StoreIds == JIDs \cup {"c"}

NoDupSeqs(S, n) == {q \in SeqsUpTo(S, n) : NoDup(q)}

\* last_poll dicts: each source absent or polled at some time
PollMaps ==
  {m \in SUBSET (SourceNames \X (1..MaxTime)) :
     \A p, q \in m : p[1] = q[1] => p = q}

\* save_state as a whole
save_state(files, path, s, lp, sv, max_seen) ==
  Replace([files EXCEPT ![TmpPath(path)] = SaveContent(s, lp, sv, max_seen)],
          TmpPath(path), path)

InitStore ==
  /\ cfg \in {Config(ms, 2, 40, TRUE, TRUE, FALSE, Intervals(1, 3)) :
                ms \in 0..MaxLen}
  /\ clock = 1
  /\ tmax = 1
  /\ runs = 0
  /\ fs = [p \in Paths |-> Missing]
  /\ ledger = <<>>
  /\ pc = "store"
  /\ state = EmptyState
  /\ handler = FALSE
  /\ seen_list \in NoDupSeqs(StoreIds, MaxLen)
  /\ seen = SeqToSet(seen_list)
  /\ last_poll \in PollMaps
  /\ saved_list \in NoDupSeqs(StoreIds, 1)
  /\ saved_set = SeqToSet(saved_list)
  /\ first_run = FALSE /\ found = NoFound /\ saved = 0
  /\ now = 0 /\ si = 1 /\ jobs = <<>> /\ pending_jobs = <<>> /\ i = 1
  /\ score = 0 /\ reasoning = ""
  /\ marked = [j \in JIDs |-> 0]
  /\ polled = NoPolls
  /\ fetch_failed = FALSE
  /\ everSeen = {}
  /\ outcome = {}
  /\ batchDone = {}
  /\ death = NoDeath
  /\ resumed = NoDeath
  /\ committed = Missing
  /\ result = NoResult

\* save_state(path, seen, last_poll, saved, max_seen)
StoreSave ==
  /\ pc = "store"
  /\ fs' = save_state(fs, STATE_FILE, seen_list, last_poll, saved_list,
                      cfg.max_seen)
  /\ pc' = "stored"
  /\ UNCHANGED <<cfg, result, tmax, state, clock, runs, ledger, handler, memory, marked, polled,
                 everSeen, outcome, batchDone, death, resumed, committed>>

\* state = load_state(path)
StoreLoad ==
  /\ pc = "stored"
  /\ state' = load_state(fs[STATE_FILE])
  /\ pc' = "loaded"
  /\ UNCHANGED <<cfg, result, tmax, clock, runs, fs, ledger, handler, memory, marked, polled,
                 everSeen, outcome, batchDone, death, resumed, committed>>

NextStore == StoreSave \/ StoreLoad

SpecStore == InitStore /\ [][NextStore]_vars

\* ------------------------------------------------ the spacing of the polls
\* --indeed-interval 1 --zip-interval 1: both sources come due again while
\* the clock runs
PollConfigs == {Config(2, 2, 40, TRUE, TRUE, FALSE, Intervals(1, 1))}

\* one run; the clock goes far enough for a source to come due in STEADY and
\* for the fetch before it to end after the tick's now
InitPoll == InitWith(PollConfigs, 1, 1, MaxTime + 1)

SpecPoll == InitPoll /\ [][Next]_vars

\* ------------------------------------------- start-up from any state file
\* the value a dict of the state file holds under a key it lacks: a
\* placeholder that load_state does not read
Absent(key) == IF key = "last_poll" THEN {} ELSE <<>>

\* the dicts a state file can hold: any subset of the three keys
StateDicts ==
  {[keys |-> K,
    seen |-> IF "seen" \in K THEN d[1] ELSE Absent("seen"),
    last_poll |-> IF "last_poll" \in K THEN d[2] ELSE Absent("last_poll"),
    saved |-> IF "saved" \in K THEN d[3] ELSE Absent("saved")] :
     K \in SUBSET {"seen", "last_poll", "saved"},
     d \in {<<>>, <<"a">>} \X {{}, {<<"indeed", 1>>}} \X {<<>>, <<"a">>}}

StateFiles == {Missing, Partial, Scalar} \cup {Json(d) : d \in StateDicts}

LoadConfigs == {Config(2, 2, 40, TRUE, TRUE, FALSE, Intervals(0, 3))}

\* one start of the process over each of the state files
InitLoad ==
  /\ cfg \in LoadConfigs
  /\ clock = 1
  /\ tmax = 1
  /\ runs = 1
  /\ fs \in {[p \in Paths |-> IF p = STATE_FILE THEN f ELSE Missing] :
               f \in StateFiles}
  /\ ledger = <<>>
  /\ pc = "boot"
  /\ state = EmptyState
  /\ handler = FALSE
  /\ seen = {} /\ seen_list = <<>> /\ last_poll = {} /\ saved_set = {}
  /\ saved_list = <<>> /\ first_run = FALSE /\ found = NoFound /\ saved = 0
  /\ now = 0 /\ si = 1 /\ jobs = <<>> /\ pending_jobs = <<>> /\ i = 1
  /\ score = 0 /\ reasoning = ""
  /\ marked = [j \in JIDs |-> 0]
  /\ polled = NoPolls
  /\ fetch_failed = FALSE
  /\ everSeen = {}
  /\ outcome = {}
  /\ batchDone = {}
  /\ death = NoDeath
  /\ resumed = NoDeath
  /\ committed = fs[STATE_FILE]
  /\ result = NoResult

SpecLoad == InitLoad /\ [][Next]_vars

\* ------------------------------------- restarts over persisted state files
\* --initial-limit 1 cuts a batch of two; both intervals are longer than the
\* behaviours, so a source with a last_poll entry of this clock is not due
BootConfigs == {Config(2, 1, 40, TRUE, TRUE, FALSE, Intervals(3, 3))}

\* the process is started MaxRuns times, the first time over any of the state
\* files; the clock stands at a time at which a source without a last_poll
\* entry is due (time.time() is far above every interval)
InitBoot ==
  /\ cfg \in BootConfigs
  /\ clock = MaxTime + 1
  /\ tmax = MaxTime + 1
  /\ runs = MaxRuns
  /\ fs \in {[p \in Paths |-> IF p = STATE_FILE THEN f ELSE Missing] :
               f \in StateFiles}
  /\ ledger = <<>>
  /\ pc = "boot"
  /\ state = EmptyState
  /\ handler = FALSE
  /\ seen = {} /\ seen_list = <<>> /\ last_poll = {} /\ saved_set = {}
  /\ saved_list = <<>> /\ first_run = FALSE /\ found = NoFound /\ saved = 0
  /\ now = 0 /\ si = 1 /\ jobs = <<>> /\ pending_jobs = <<>> /\ i = 1
  /\ score = 0 /\ reasoning = ""
  /\ marked = [j \in JIDs |-> 0]
  /\ polled = NoPolls
  /\ fetch_failed = FALSE
  /\ everSeen = {}
  /\ outcome = {}
  /\ batchDone = {}
  /\ death = NoDeath
  /\ resumed = NoDeath
  /\ committed = fs[STATE_FILE]
  /\ result = NoResult

SpecBoot == InitBoot /\ [][Next]_vars

\* --------------------------------------------------- score normalization
\* largest finite score handed to _to_score_percent
MaxScore == 150

\* A score is a multiple of 1/100 (h hundredths), an infinity, a NaN, or a
\* value float() rejects.  On the multiples of 1/100 the float arithmetic of
\* lines 70-72 is exact after rounding: val * 100.0 rounds to h, and the
\* ties of round() are the exactly representable halves.
Finite(h) == [kind |-> "finite", h |-> h]

ScoreValues ==
  {Finite(h) : h \in (0 - MaxScore * 100)..(MaxScore * 100)}
    \cup {[kind |-> k, h |-> 0] : k \in {"inf", "-inf", "nan", "text"}}

\* round() of h/100: to the nearest integer, ties to the even one
RoundHalfEven(h) ==
  LET q == h \div 100
      r == h % 100
  IN IF r > 50 \/ (r = 50 /\ q % 2 = 1) THEN q + 1 ELSE q

Returned(v) == [kind |-> "return", value |-> v]
Raised(e) == [kind |-> "raise", value |-> e]

\* _to_score_percent, lines 65-72: only float() is inside the try; round()
\* of an infinity raises OverflowError and of a NaN ValueError
to_score_percent(x) ==
  IF x.kind = "text" THEN Returned(0)
  ELSE LET val == IF x.kind = "finite" /\ x.h <= 100 THEN Finite(x.h * 100)
                  ELSE x
       IN IF val.kind = "finite"
          THEN Returned(Max(0, Min(100, RoundHalfEven(val.h))))
          ELSE IF val.kind = "nan" THEN Raised("ValueError")
          ELSE Raised("OverflowError")

InitScore ==
  /\ cfg \in LoadConfigs
  /\ clock = 1
  /\ tmax = 1
  /\ runs = 0
  /\ fs = [p \in Paths |-> Missing]
  /\ ledger = <<>>
  /\ pc = "normalize"
  /\ state = EmptyState
  /\ handler = FALSE
  /\ seen = {} /\ seen_list = <<>> /\ last_poll = {} /\ saved_set = {}
  /\ saved_list = <<>> /\ first_run = FALSE /\ found = NoFound /\ saved = 0
  /\ now = 0 /\ si = 1 /\ jobs = <<>> /\ pending_jobs = <<>> /\ i = 1
  /\ score = 0 /\ reasoning = ""
  /\ marked = [j \in JIDs |-> 0]
  /\ polled = NoPolls
  /\ fetch_failed = FALSE
  /\ everSeen = {}
  /\ outcome = {}
  /\ batchDone = {}
  /\ death = NoDeath
  /\ resumed = NoDeath
  /\ committed = Missing
  /\ result \in {[score |-> x] : x \in ScoreValues}

\* score_job_with_ai line 141: result["score"] = _to_score_percent(...); an
\* exception leaves result as it is and goes to the except block of line 145
Normalize ==
  /\ pc = "normalize"
  /\ LET r == to_score_percent(result.score)
     IN IF r.kind = "return"
        THEN /\ result' = [score |-> r.value]
             /\ pc' = "normalized"
        ELSE /\ result' = result
             /\ pc' = "raised"
  /\ UNCHANGED <<cfg, tmax, state, clock, runs, fs, ledger, handler, memory,
                 marked, polled, everSeen, outcome, batchDone, death, resumed,
                 committed>>

SpecScore == InitScore /\ [][Normalize]_vars

\* ----------------------------------------------------------------- claims
running == pc # "boot"

StoredFile == fs[STATE_FILE]

\* C1 (as stated): a listing that was in the pipeline (marked seen, batch not
\* ended) when the process was killed is in seen after the restart.
C1_KilledWhileScoring ==
  (running /\ resumed.cause = "kill" /\ resumed.inflight # None)
    => resumed.inflight \in seen

\* C1 (amended): a listing that was in the pipeline when the process was
\* interrupted by Ctrl+C, whose handler completed its save_state, is in seen
\* after the restart (max_seen >= 0).
C1_InterruptedWhileScoring ==
  (running /\ resumed.cause = "interrupt" /\ resumed.inflight # None)
    => resumed.inflight \in seen

C1_Witness ==
  /\ running
  /\ resumed.cause = "interrupt"
  /\ resumed.inflight # None
  /\ resumed.inflight \in seen
  /\ ~first_run

\* C3 (as stated): in every state file written by save_state each identifier
\* of saved is in seen.
C3_SavedSubsetSeen ==
  StoredFile.kind = "json"
    => SeqToSet(StoredFile.data.saved) \subseteq SeqToSet(StoredFile.data.seen)

\* C3 (amended): in every state file written by save_state each identifier
\* of saved is in seen as long as no more than max_seen identifiers have been
\* marked seen since the empty state.
C3_SavedSubsetSeenUncapped ==
  (StoredFile.kind = "json" /\ Cardinality(everSeen) <= cfg.max_seen)
    => /\ SeqToSet(StoredFile.data.saved) \subseteq SeqToSet(StoredFile.data.seen)
       /\ SeqToSet(load_state(StoredFile).saved)
            \subseteq SeqToSet(load_state(StoredFile).seen)

C3_Witness ==
  /\ StoredFile.kind = "json"
  /\ Cardinality(everSeen) = cfg.max_seen
  /\ Len(StoredFile.data.saved) = 2
  /\ SeqToSet(StoredFile.data.saved) \subseteq SeqToSet(StoredFile.data.seen)

\* C4: within one run no identifier enters the pipeline (is marked, scored,
\* rendered, counted, ledgered) more than once.
C4_AtMostOncePerRun == \A j \in JIDs : marked[j] <= 1

\* an identifier processed earlier in this run is fetched again, in steady
\* state, with more than max_seen identifiers observed
C4_Witness ==
  /\ pc = "fetched"
  /\ ~first_run
  /\ \E j \in SeqToSet(jobs) : marked[j] = 1
  /\ Len(seen_list) > cfg.max_seen
  /\ cfg.max_seen > 0

\* C6: the state file always holds the complete content of the last completed
\* save_state (or is missing before the first one), never a partial write,
\* wherever inside save_state the process is killed.
C6_StateFileAtomic ==
  /\ StoredFile = committed
  /\ StoredFile.kind # "partial"

\* the process was killed inside save_state, in the middle of the write of
\* the temporary file, over an earlier saved state, and has started again
\* and loaded that state
C6_Witness ==
  /\ pc = "tick"
  /\ resumed.cause = "kill"
  /\ fs[TmpPath(STATE_FILE)].kind = "partial"
  /\ StoredFile.kind = "json"
  /\ state = StoredFile.data
  /\ Len(state.seen) > 0

\* the due-ness rule as the claim C7 states it
ClaimedDue(first, lp, source, t, interval) ==
  \/ first
  \/ source \notin Keys(lp)
  \/ t - Get(lp, source, 0) >= interval

\* C7 (as stated): a source is fetched in a tick iff first_run holds, or it
\* has no entry in last_poll, or now - last_poll[source] >= interval.
C7_FetchedIffDue ==
  [][(pc = "poll" /\ si <= Len(Sources) /\ pc' \in {"poll", "fetched"})
       => ((pc' = "fetched") <=>
             ClaimedDue(first_run, last_poll, Sources[si], now,
                        cfg.interval[Sources[si]]))]_vars

\* C10 (as stated): in the first run the listings processed from a batch are
\* the first initial_limit listings of the batch that are not in seen.
C10_FilterThenTruncate ==
  [][(pc = "fetched" /\ pc' \in {"job", "save"} /\ ~handler' /\ first_run)
       => pending_jobs' = Take(NotSeen(jobs, seen), cfg.initial_limit)]_vars

\* the last n entries of s (all of s when it has at most n)
ClaimedLast(s, n) == SubSeq(s, Len(s) - Min(n, Len(s)) + 1, Len(s))

\* C5 (as stated): save_state then load_state returns last_poll and saved
\* unchanged and seen cut to its last max_seen entries, for every
\* max_seen >= 0.
C5_RoundTrip ==
  pc = "loaded"
    => /\ state.last_poll = last_poll
       /\ state.saved = saved_list
       /\ state.seen = ClaimedLast(seen_list, cfg.max_seen)
       /\ Len(state.seen) <= cfg.max_seen

RECURSIVE SumOver(_, _)
SumOver(f, S) ==
  IF S = {} THEN 0
  ELSE LET x == CHOOSE y \in S : TRUE IN f[x] + SumOver(f, S \ {x})

Rendering == pc \in {"render", "ledger", "record"}

\* C8 (as stated): in every configuration, a listing that is rendered,
\* counted or ledgered has score >= min_score.
C8_GateEverywhere ==
  /\ Rendering => score >= cfg.min_score
  /\ \A k \in DOMAIN ledger : ledger[k].score >= cfg.min_score

\* C8 (amended): when a scorer is active, a listing that is rendered, counted
\* or ledgered has score >= min_score, and its identifier is in seen; a
\* listing scored below min_score is dropped with its identifier kept in seen.
C8_GateWithScorer ==
  ScorerActive(cfg)
    => /\ Rendering => (score >= cfg.min_score /\ pending_jobs[i] \in seen)
       /\ \A k \in DOMAIN ledger : ledger[k].score >= cfg.min_score
       /\ (~handler /\ pc \notin {"boot", "score", "render"})
            => found.white + found.blue + found.yellow + found.magenta
                 <= SumOver(marked, JIDs)
       /\ (cfg.min_score > 0 /\ ~handler /\ pc \notin {"boot", "score", "render"})
            => found.white = 0

\* the first listing of a run's first batch was scored below min_score and
\* dropped: marked seen, not counted, not ledgered
C8_Witness ==
  /\ ScorerActive(cfg)
  /\ cfg.min_score > 0
  /\ ~handler
  /\ pc = "job"
  /\ i = 2
  /\ marked[pending_jobs[1]] = 1
  /\ pending_jobs[1] \in seen
  /\ found = NoFound
  /\ ledger = <<>>

\* C9: without an active scorer every newly observed listing is rendered
\* with score 0 and empty rationale whatever min_score is, counted in the
\* lowest tier, and never ledgered.
C9_NoScorerSurfacesAll ==
  ~ScorerActive(cfg)
    => /\ Rendering => (score = 0 /\ reasoning = "")
       /\ pc # "record"
       /\ ledger = <<>>
       /\ found.magenta = 0 /\ found.yellow = 0 /\ found.blue = 0
       /\ (~handler /\ pc \notin {"boot", "score", "render"})
            => found.white = SumOver(marked, JIDs)

\* no scorer, min_score 40: both listings of a batch were rendered
C9_Witness ==
  /\ ~ScorerActive(cfg)
  /\ cfg.min_score > 0
  /\ ~handler
  /\ pc = "save"
  /\ Len(pending_jobs) = 2
  /\ found.white = 2

\* C2 (as stated): with interrupts and restarts (no kill) each identifier
\* has at most one ledger entry, and every entry has score >= 60.
C2_LedgerOncePerId ==
  /\ \A p, q \in DOMAIN ledger : p # q => ledger[p].jid # ledger[q].jid
  /\ \A k \in DOMAIN ledger : ledger[k].score >= SaveThreshold

\* the sources before position k of the pass have been fetched once, the
\* others not yet
FetchedOnceBefore(k) ==
  \A n \in DOMAIN Sources : polled[Sources[n]] = IF n < k THEN 1 ELSE 0

\* C11: in BOOTSTRAP (first_run) no source is skipped and each is fetched
\* exactly once in the first pass, whatever its interval and last_poll;
\* first_run becomes false exactly when the pass over all sources completes,
\* whatever the fetches returned; within a run it never becomes true again.
C11_BootstrapThenSteady ==
  /\ []((first_run /\ pc = "poll") => FetchedOnceBefore(si))
  /\ []((first_run /\ pc \in {"fetched", "job", "score", "render", "ledger",
                              "record"})
          => FetchedOnceBefore(si + 1))
  /\ [][/\ (first_run /\ pc = "poll" /\ si <= Len(Sources) /\ ~handler'
              /\ pc' # "boot")
             => (pc' = "fetched" /\ si' = si)
        /\ (first_run /\ ~first_run' /\ pc' # "boot")
             => (pc = "poll" /\ si > Len(Sources)
                   /\ FetchedOnceBefore(Len(Sources) + 1))
        /\ (pc = "poll" /\ si > Len(Sources) /\ pc' = "tick") => ~first_run'
        /\ (~first_run /\ first_run') => pc = "boot"]_vars

\* in BOOTSTRAP the second source has just been fetched although the state
\* file of the run before holds a last_poll entry for it that is younger than
\* its interval
C11_Witness ==
  /\ pc = "fetched"
  /\ first_run
  /\ Sources[si] = "zip_recruiter"
  /\ FetchedOnceBefore(si + 1)
  /\ resumed.cause = "kill"
  /\ committed.kind = "json"
  /\ "zip_recruiter" \in Keys(committed.data.last_poll)
  /\ now - Get(committed.data.last_poll, "zip_recruiter", 0)
       < cfg.interval["zip_recruiter"]

\* C12 (as stated): the state file never records in seen an identifier whose
\* listing has not gone through the pipeline to its outcome, and after a
\* restart the identifiers in seen are those of listings that reached their
\* outcome or entered the pipeline in this run.
C12_SeenOnlyAfterOutcome ==
  /\ StoredFile.kind = "json"
       => SeqToSet(StoredFile.data.seen) \subseteq outcome
  /\ running => \A j \in seen : j \in outcome \/ marked[j] > 0

\* the state file the claim C13 describes: seen cut to its last max_seen
\* entries, last_poll and saved as they are
ClaimedFinalFile(s, lp, sv, max_seen) ==
  Json([keys |-> {"seen", "last_poll", "saved"},
        seen |-> ClaimedLast(s, max_seen), last_poll |-> lp, saved |-> sv])

\* C13 (as stated): the loop ends only through an interrupt (or a kill from
\* outside); after an interrupt anywhere in the loop the handler changes
\* nothing in memory, runs one save_state and the process exits, and the
\* state file then holds seen capped to max_seen, last_poll and saved as
\* they were at the interrupt.
C13_InterruptSavesAndExits ==
  [][/\ (pc # "boot" /\ pc' = "boot")
          => ((handler /\ pc = "save_replace") \/ death'.cause = "kill")
     /\ (handler /\ handler')
          => UNCHANGED <<seen_list, last_poll, saved_list>>
     /\ (handler /\ pc = "save_replace" /\ death'.cause # "kill")
          => /\ pc' = "boot"
             /\ fs'[STATE_FILE] =
                  ClaimedFinalFile(seen_list, last_poll, saved_list,
                                   cfg.max_seen)]_vars

\* C14: when the scorer fails on a listing, the listing gets score 0 with
\* the rationale "Scoring unavailable"; the failure does not leave the loop:
\* the loop is at the rendering of that listing, at the next listing of the
\* batch, or, only after the last listing, at the save that ends the batch,
\* from where the next source of the tick is polled; at the end of a batch
\* every listing of the batch has gone through the pipeline.
C14_ScorerFailureContained ==
  /\ [](reasoning = "Scoring unavailable" => score = 0)
  /\ []((pc = "save" /\ ~handler) => SeqToSet(pending_jobs) \subseteq outcome)
  /\ [][/\ (pc = "score" /\ reasoning' = "Scoring unavailable")
             => /\ ~handler' /\ pc' \in {"render", "job", "save"}
                /\ score' = 0
                /\ UNCHANGED <<pending_jobs, si, now, seen_list, first_run>>
                /\ pc' = "render" => i' = i
                /\ pc' = "job" => (i' = i + 1 /\ i' <= Len(pending_jobs))
                /\ pc' = "save" => i = Len(pending_jobs)
        /\ (pc = "save_replace" /\ ~handler /\ pc' # "boot" /\ ~handler')
             => (pc' = "poll" /\ si' = si + 1 /\ now' = now)]_vars

\* the scorer failed on the first listing of the first source's batch and the
\* loop is at the second listing
C14_Witness ==
  /\ ScorerActive(cfg)
  /\ ~handler
  /\ pc = "job"
  /\ i = 2
  /\ si = 1
  /\ reasoning = "Scoring unavailable"
  /\ score = 0

\* C15 (as stated): when the fetch of a source fails, the source yields zero
\* listings for the tick: no listing of it enters the pipeline, seen and
\* saved stay as they are, and the loop goes on to the batch-end save and
\* the next source; last_poll holds the time of the failed fetch, from which
\* the next due cycle is counted.
C15_FailedFetchYieldsNothing ==
  /\ [](fetch_failed => jobs = <<>>)
  /\ [][(pc = "fetched" /\ fetch_failed /\ ~handler' /\ pc' # "boot")
          => /\ pc' = "save"
             /\ pending_jobs' = <<>>
             /\ UNCHANGED <<seen, seen_list, saved_set, saved_list, si>>
             /\ Get(last_poll', Sources[si], 0) = clock]_vars

Numeric(x) == x.kind \in {"finite", "inf", "-inf", "nan"}

\* C17 (as stated): for every numeric input _to_score_percent returns an
\* integer in 0..100: a score in [0, 1] times 100, 100 for a value above 100,
\* 0 for a negative value, and a value in (1, 100] rounded to an integer.
C17_ScorePercent ==
  [][(pc = "normalize" /\ Numeric(result.score))
       => LET x == result.score
              y == result'.score
          IN /\ pc' = "normalized"
             /\ y \in 0..100
             /\ (x.kind = "finite" /\ x.h >= 0 /\ x.h <= 100) => y = x.h
             /\ (x.kind = "inf" \/ (x.kind = "finite" /\ x.h > 10000))
                  => y = 100
             /\ (x.kind = "-inf" \/ (x.kind = "finite" /\ x.h < 0)) => y = 0
             /\ (x.kind = "finite" /\ x.h > 100 /\ x.h <= 10000)
                  => (100 * y - x.h <= 50 /\ x.h - 100 * y <= 50)]_vars

\* C18: in STEADY, a fetch of a source that has a last_poll entry starts (at
\* the time the clock shows when the source is reached, which is the tick's
\* now or later) at least the source's interval after the completion time
\* of its previous fetch, the time stored in last_poll.
C18_SpacingAtLeastInterval ==
  /\ [](pc \notin {"boot", "tick"} => now <= clock)
  /\ [][(pc = "poll" /\ pc' = "fetched" /\ ~first_run
           /\ Sources[si] \in Keys(last_poll))
          => clock >= Get(last_poll, Sources[si], 0)
                        + cfg.interval[Sources[si]]]_vars

\* in STEADY the second source has been fetched for the second time in this
\* run, later than the now of the tick because the first source took time
C18_Witness ==
  /\ pc = "fetched"
  /\ ~first_run
  /\ Sources[si] = "zip_recruiter"
  /\ polled["zip_recruiter"] = 1
  /\ now < Get(last_poll, "indeed", 0)

\* C19 (as stated): after a kill and a restart every listing of a batch
\* that had ended with its save_state before the kill is in the loaded seen,
\* so no listing of an ended batch is processed again as new.
C19_EndedBatchesSurviveKill ==
  /\ []((running /\ resumed.cause = "kill") => batchDone \subseteq seen)
  /\ [][(pc = "job" /\ pc' = "score" /\ resumed.cause = "kill")
          => pending_jobs[i] \notin batchDone]_vars

\* C19 (amended): the same, as long as no more than max_seen identifiers
\* have been marked seen since the empty state, that is, as long as no
\* save_state has cut seen.
C19_EndedBatchesSurviveKillUncapped ==
  /\ []((running /\ resumed.cause = "kill"
           /\ Cardinality(everSeen) <= cfg.max_seen)
          => batchDone \subseteq seen)
  /\ [][(pc = "job" /\ pc' = "score" /\ resumed.cause = "kill"
           /\ Cardinality(everSeen \cup {pending_jobs[i]}) <= cfg.max_seen)
          => pending_jobs[i] \notin batchDone]_vars

\* after a kill, the listing that was in the pipeline at the kill is
\* processed again as new, while the listings of the batch that had ended
\* before are in the loaded seen
C19_Witness ==
  /\ pc = "score"
  /\ resumed.cause = "kill"
  /\ resumed.inflight = pending_jobs[i]
  /\ batchDone # {}
  /\ batchDone \subseteq seen
  /\ pending_jobs[i] \notin batchDone
  /\ Cardinality(everSeen) <= cfg.max_seen

\* C20 (as stated): with kills at any point and restarts (no interrupt), the
\* ledger holds at most one entry for each identifier.
C20_LedgerOncePerIdAcrossKill ==
  \A j \in JIDs : Cardinality({k \in DOMAIN ledger : ledger[k].jid = j}) <= 1

\* the seen list the state file holds (none when the file is missing, not
\* parsable, not a dict or lacks the key)
PersistedSeen ==
  IF StoredFile.kind = "json" /\ "seen" \in StoredFile.data.keys
  THEN StoredFile.data.seen
  ELSE <<>>

\* the source the pass has reached is not due by its interval
NotElapsed ==
  now - Get(last_poll, Sources[si], 0) < cfg.interval[Sources[si]]

\* C21: a run starts in BOOTSTRAP (first_run) exactly when the seen list of
\* the state file is empty, whatever last_poll and saved hold.  A run that
\* starts in STEADY stays in STEADY, fetches a source only when its interval
\* has elapsed, skips it otherwise, and filters the whole fetched list without
\* the initial-limit cut.  A run that starts in BOOTSTRAP stays in BOOTSTRAP
\* until its pass over the sources is over and fetches each source it
\* reaches, also one whose interval has not elapsed.
C21_BootstrapIffSeenEmpty ==
  [][/\ (pc = "boot" /\ pc' = "tick")
          => first_run' = (PersistedSeen = <<>>)
     /\ (~first_run /\ first_run') => pc = "boot"
     /\ (~first_run /\ pc = "poll" /\ pc' = "fetched") => ~NotElapsed
     /\ (~first_run /\ pc = "poll" /\ si <= Len(Sources) /\ NotElapsed
           /\ ~handler' /\ pc' # "boot")
          => (pc' = "poll" /\ si' = si + 1 /\ last_poll' = last_poll)
     /\ (~first_run /\ pc = "fetched" /\ ~handler' /\ pc' # "boot")
          => pending_jobs' = NotSeen(jobs, seen)
     /\ (first_run /\ ~first_run' /\ pc' # "boot")
          => (pc = "poll" /\ si > Len(Sources))
     /\ (first_run /\ pc = "poll" /\ si <= Len(Sources) /\ ~handler'
           /\ pc' # "boot")
          => (pc' = "fetched" /\ si' = si
                /\ last_poll' = Put(last_poll, Sources[si], clock'))]_vars

\* The run before started with an empty seen and was interrupted while the
\* listing b, fetched in its first pass, was being processed; the handler
\* wrote seen = [b].  This run started in STEADY from that file and has
\* skipped both sources, whose last_poll entries are younger than their
\* intervals.
C21_Witness ==
  /\ pc = "poll"
  /\ si > Len(Sources)
  /\ ~first_run
  /\ polled = NoPolls
  /\ resumed.cause = "interrupt"
  /\ resumed.inflight = "b"
  /\ StoredFile = committed
  /\ PersistedSeen = <<"b">>
  /\ seen_list = <<"b">>
  /\ \A s \in SourceNames :
       /\ s \in Keys(last_poll)
       /\ now - Get(last_poll, s, 0) < cfg.interval[s]

====
